---- MODULE Spec2Model ----
(***************************************************************************)
(* A model of lib/redis/redisconnection.cpp: the pipelined Redis           *)
(* connection with its Start/Connect start-up, the four submission entry   *)
(* points, the writer coroutine (WriteLoop) and the reader coroutine       *)
(* (ReadLoop).  Everything behind m_Strand runs on one cooperative         *)
(* executor, so one action is one run of a handler or of a coroutine       *)
(* between two suspension points (Wait, WriteOne, ReadOne, async connect). *)
(***************************************************************************)
EXTENDS Integers, Sequences, FiniteSets, TLC

\* ---------------------------------------------------------------- bounds
\* Number of submissions (calls of the four entry points) in a behaviour.
MaxSubmit == 3
\* Largest number of queries in a bulk submission (0 .. MaxBulk).
MaxBulk == 2
\* Number of Start() calls in a behaviour.
MaxStarts == 2

\* Threads that call Start(), possibly at the same time.
StartThreads == {"t1", "t2"}

VARIABLES
    started,          \* m_Started
    connecting,       \* m_Connecting
    connected,        \* m_Connected
    startPc,          \* per thread: where it is inside Start()
    startCalls,       \* Start() calls that have run their first exchange
    readLoops,        \* ReadLoop coroutines spawned so far
    writeLoops,       \* WriteLoop coroutines spawned so far
    connInFlight,     \* Connect coroutines suspended in the async connect
    connectsStarted,  \* Connect coroutines spawned so far
    connectsFailed,   \* Connect coroutines that ended in the catch branch
    unwound,          \* the coroutines were destroyed (forced unwind)
    nsub,             \* submissions made so far
    subs,             \* history: the item of every submission, by id
    posted,           \* handlers posted to m_Strand, not yet run (FIFO)
    writes,           \* m_Queues.Writes
    queuedWrites,     \* m_QueuedWrites
    queuedReads,      \* m_QueuedReads
    futureActions,    \* m_Queues.FutureResponseActions
    replyPromises,    \* m_Queues.ReplyPromises   (ids of the promises)
    repliesPromises,  \* m_Queues.RepliesPromises (ids of the promises)
    result,           \* shared state of each submission's promise/future
    completed,        \* history: ids of the promises in the order satisfied
    wire,             \* queries on the wire whose reply was not read yet
    wpc,              \* WriteLoop: "none" | "wait" | "drain" | "send"
    wnext,            \* WriteLoop: the item `next` popped from Writes
    wi,               \* WriteLoop: queries of `next` sent successfully
    rpc,              \* ReadLoop: "none" | "wait" | "drain" | "read" | "dead"
    ritem,            \* ReadLoop: the entry `item` popped
    ri,               \* ReadLoop: loop counter i (reads still to attempt)
    rpromise,         \* ReadLoop: id of the local `promise`
    rreplies,         \* ReadLoop: the local `replies` of DeliverBulk
    sendFailed,       \* history: some WriteOne threw
    readFailed,       \* history: some ReadOne threw
    doubleSet,        \* history: a set_value/set_exception hit a satisfied promise
    sentLog,          \* history: the queries put on the wire, in order
    nreads            \* history: ReadOne calls started

startVars == <<started, connecting, connected, startPc, startCalls, readLoops,
               writeLoops, connInFlight, connectsStarted, connectsFailed,
               unwound>>
subVars   == <<nsub, subs, posted>>
queueVars == <<writes, queuedWrites, queuedReads, futureActions,
               replyPromises, repliesPromises>>
promVars  == <<result, completed, doubleSet>>
writerVars == <<wpc, wnext, wi>>
readerVars == <<rpc, ritem, ri, rpromise, rreplies>>
histVars  == <<sendFailed, readFailed, sentLog, nreads>>
vars == <<startVars, subVars, queueVars, promVars, wire, writerVars,
          readerVars, histVars>>

\* ------------------------------------------------------------ data types
FireAndForgetQuery   == "FireAndForgetQuery"
FireAndForgetQueries == "FireAndForgetQueries"
GetResultOfQuery     == "GetResultOfQuery"
GetResultsOfQueries  == "GetResultsOfQueries"

Ignore      == "Ignore"
Deliver     == "Deliver"
DeliverBulk == "DeliverBulk"

\* A WriteQueueItem: exactly one of the four pointers is set (kind); n is the
\* number of queries it carries, id the submission (and its promise).
WriteQueueItem(id, kind, n) == [id |-> id, kind |-> kind, n |-> n]
NoItem == [id |-> 0, kind |-> "none", n |-> 0]

FutureResponseAction(amount, action) == [Amount |-> amount, Action |-> action]
NoAction == [Amount |-> 0, Action |-> "none"]

\* The j-th query of submission id, and the server's reply to a query.
Query(id, j) == <<id, j>>
ReplyTo(q) == [re |-> q]

\* The replies a submission is entitled to, in input order.
OwnReplies(item) == [j \in 1..item.n |-> ReplyTo(Query(item.id, j))]

IsAwait(kind) == kind \in {GetResultOfQuery, GetResultsOfQueries}

\* State of a promise/future pair.
NoPromise == [st |-> "none",    val |-> <<>>]
Pending   == [st |-> "pending", val |-> <<>>]
Value(v)  == [st |-> "value",   val |-> v]
Error     == [st |-> "error",   val |-> <<>>]

\* ------------------------------------------------------------------ Init
\* The constructor (lines 47-51): the three flags false, queues empty, no
\* coroutine spawned.
Init ==
    /\ started = FALSE /\ connecting = FALSE /\ connected = FALSE
    /\ startPc = [t \in StartThreads |-> "idle"]
    /\ startCalls = 0 /\ readLoops = 0 /\ writeLoops = 0
    /\ connInFlight = 0 /\ connectsStarted = 0 /\ connectsFailed = 0
    /\ nsub = 0 /\ subs = <<>> /\ posted = <<>>
    /\ writes = <<>> /\ queuedWrites = FALSE /\ queuedReads = FALSE
    /\ futureActions = <<>> /\ replyPromises = <<>> /\ repliesPromises = <<>>
    /\ result = [k \in 1..MaxSubmit |-> NoPromise]
    /\ completed = <<>> /\ doubleSet = FALSE
    /\ wire = <<>>
    /\ wpc = "none" /\ wnext = NoItem /\ wi = 0
    /\ rpc = "none" /\ ritem = NoAction /\ ri = 0 /\ rpromise = 0
    /\ rreplies = <<>>
    /\ sendFailed = FALSE /\ readFailed = FALSE
    /\ sentLog = <<>> /\ nreads = 0
    /\ unwound = FALSE

\* --------------------------------------------------------- Start, Connect
\* What m_Started.exchange(true) returns (line 55).
ExchangeStartedNoCheck == FALSE
ExchangeStarted == started

\* What m_Connecting.exchange(true) returns (line 62).
ExchangeConnectingNoCheck == FALSE
ExchangeConnecting == connecting

\* The value the Defer of Connect stores in m_Connecting (line 162), given
\* the value of m_Connected at the exit.
NotConnectingAlwaysFalse(conn) == FALSE
NotConnecting(conn) == conn

\* Start(), lines 55-60: the first exchange and the two spawns.
StartLoops(t) ==
    /\ ~unwound
    /\ startPc[t] = "idle"
    /\ startCalls < MaxStarts
    /\ startCalls' = startCalls + 1
    /\ startPc' = [startPc EXCEPT ![t] = "loops"]
    /\ started' = TRUE
    /\ IF ~ExchangeStarted
          THEN /\ readLoops' = readLoops + 1
               /\ writeLoops' = writeLoops + 1
               /\ rpc' = IF rpc = "none" THEN "wait" ELSE rpc
               /\ wpc' = IF wpc = "none" THEN "wait" ELSE wpc
          ELSE UNCHANGED <<readLoops, writeLoops, rpc, wpc>>
    /\ UNCHANGED <<connecting, connected, connInFlight, connectsStarted,
                   connectsFailed, unwound, subVars, queueVars, promVars, wire,
                   wnext, wi, ritem, ri, rpromise, rreplies, histVars>>

\* Start(), lines 62-66: the second exchange and the spawn of Connect.
StartConnect(t) ==
    /\ ~unwound
    /\ startPc[t] = "loops"
    /\ startPc' = [startPc EXCEPT ![t] = "idle"]
    /\ connecting' = TRUE
    /\ IF ~ExchangeConnecting
          THEN /\ connInFlight' = connInFlight + 1
               /\ connectsStarted' = connectsStarted + 1
          ELSE UNCHANGED <<connInFlight, connectsStarted>>
    /\ UNCHANGED <<started, connected, startCalls, readLoops, writeLoops,
                   connectsFailed, unwound, subVars, queueVars, promVars, wire,
                   writerVars, readerVars, histVars>>

\* Connect(), the async connect returned: the transport is installed,
\* m_Connected is set (line 177) and the Defer runs (line 162).
ConnectOk ==
    /\ ~unwound
    /\ connInFlight > 0
    /\ connInFlight' = connInFlight - 1
    /\ connected' = TRUE
    /\ connecting' = NotConnecting(TRUE)
    /\ UNCHANGED <<started, startPc, startCalls, readLoops, writeLoops,
                   connectsStarted, connectsFailed, unwound, subVars, queueVars,
                   promVars, wire, writerVars, readerVars, histVars>>

\* Connect(), the async connect threw: the catch of lines 182-185, then
\* the Defer.
ConnectFail ==
    /\ ~unwound
    /\ connInFlight > 0
    /\ connInFlight' = connInFlight - 1
    /\ connectsFailed' = connectsFailed + 1
    /\ connecting' = NotConnecting(connected)
    /\ UNCHANGED <<started, connected, startPc, startCalls, readLoops,
                   writeLoops, connectsStarted, unwound, subVars, queueVars,
                   promVars, wire, writerVars, readerVars, histVars>>

\* Connect(), destroyed while suspended in the async connect (the executor
\* and its coroutines are torn down): forced_unwind is rethrown (lines
\* 180-181) and the Defer runs.  Nothing runs on the connection afterwards.
ConnectUnwind ==
    /\ ~unwound
    /\ connInFlight > 0
    /\ connInFlight' = connInFlight - 1
    /\ connecting' = NotConnecting(connected)
    /\ unwound' = TRUE
    /\ UNCHANGED <<started, connected, startPc, startCalls, readLoops,
                   writeLoops, connectsStarted, connectsFailed, subVars,
                   queueVars, promVars, wire, writerVars, readerVars,
                   histVars>>

\* --------------------------------------------------------- submission API
\* The four entry points up to their asio::post (lines 88-158): the item is
\* built, its promise (if any) created, and the enqueue handler posted.
Submit(kind, n) ==
    /\ ~unwound
    /\ nsub < MaxSubmit
    /\ LET item == WriteQueueItem(nsub + 1, kind, n) IN
         /\ nsub' = nsub + 1
         /\ subs' = Append(subs, item)
         /\ posted' = Append(posted, item)
         /\ result' = [result EXCEPT ![nsub + 1] =
                          IF IsAwait(kind) THEN Pending ELSE NoPromise]
    /\ UNCHANGED <<startVars, queueVars, completed, doubleSet, wire,
                   writerVars, readerVars, histVars>>

SubmitFireAndForgetQuery   == Submit(FireAndForgetQuery, 1)
SubmitFireAndForgetQueries == \E n \in 0..MaxBulk : Submit(FireAndForgetQueries, n)
SubmitGetResultOfQuery     == Submit(GetResultOfQuery, 1)
SubmitGetResultsOfQueries  == \E n \in 0..MaxBulk : Submit(GetResultsOfQueries, n)

\* m_Queues.Writes.emplace(item), line 98: at the back of the queue.
EmplaceAtFront(queue, item) == <<item>> \o queue
Emplace(queue, item) == Append(queue, item)

\* m_QueuedWrites.Set(), line 99: the flag after the call.
SetForgotten(flag) == flag
Set(flag) == TRUE

\* The posted handler runs on the strand (lines 97-100, 112-115, 129-132,
\* 150-153): emplace into Writes, m_QueuedWrites.Set().
RunPosted ==
    /\ ~unwound
    /\ posted # <<>>
    /\ posted' = Tail(posted)
    /\ writes' = Emplace(writes, Head(posted))
    /\ queuedWrites' = Set(queuedWrites)
    /\ UNCHANGED <<startVars, nsub, subs, queuedReads, futureActions,
                   replyPromises, repliesPromises, promVars, wire,
                   writerVars, readerVars, histVars>>

\* ------------------------------------------------------------ the socket
\* WriteOne(stream, query, yc) lives in redisconnection.hpp.  A send
\* either puts the query on the wire or throws; before the Connector has
\* installed the transport every send throws.
WriteOneOutcomes == IF connected THEN {"ok", "throw"} ELSE {"throw"}

\* ReadOne(stream, yc) lives in redisconnection.hpp.  A read takes the next
\* reply off the wire (one reply per request, in request order) and either
\* returns it or throws while decoding it; framing stays intact.
ReadOneOutcomes == IF wire # <<>> THEN {"ok", "throw"} ELSE {}

\* ------------------------------------------------------------ WriteLoop
\* Lines 290-294, 322-326, 345-349: extend the tail entry if it has the
\* same action, else emplace a new entry.
AppendOrExtendOverwrite(fa, action, amount) ==
    IF fa = <<>> \/ fa[Len(fa)].Action # action
       THEN Append(fa, FutureResponseAction(amount, action))
       ELSE [fa EXCEPT ![Len(fa)].Amount = amount]
AppendAlways(fa, action, amount) ==
    Append(fa, FutureResponseAction(amount, action))
AppendOrExtend(fa, action, amount) ==
    IF fa = <<>> \/ fa[Len(fa)].Action # action
       THEN Append(fa, FutureResponseAction(amount, action))
       ELSE [fa EXCEPT ![Len(fa)].Amount = @ + amount]

RecordedBulkCoalesced(next, q) ==
    CASE next.kind = FireAndForgetQuery ->
           [q EXCEPT !.fa = AppendOrExtend(q.fa, Ignore, 1)]
      [] next.kind = FireAndForgetQueries ->
           [q EXCEPT !.fa = AppendOrExtend(q.fa, Ignore, next.n)]
      [] next.kind = GetResultOfQuery ->
           [q EXCEPT !.single = Append(q.single, next.id),
                     !.fa = AppendOrExtend(q.fa, Deliver, 1)]
      [] next.kind = GetResultsOfQueries ->
           [q EXCEPT !.bulk = Append(q.bulk, next.id),
                     !.fa = AppendOrExtend(q.fa, DeliverBulk, next.n)]

\* The queues after every WriteOne of `next` returned: lines 290-294,
\* 322-326, 343-349, 368-369.
Recorded(next, q) ==
    CASE next.kind = FireAndForgetQuery ->
           [q EXCEPT !.fa = AppendOrExtend(q.fa, Ignore, 1)]
      [] next.kind = FireAndForgetQueries ->
           [q EXCEPT !.fa = AppendOrExtend(q.fa, Ignore, next.n)]
      [] next.kind = GetResultOfQuery ->
           [q EXCEPT !.single = Append(q.single, next.id),
                     !.fa = AppendOrExtend(q.fa, Deliver, 1)]
      [] next.kind = GetResultsOfQueries ->
           [q EXCEPT !.bulk = Append(q.bulk, next.id),
                     !.fa = Append(q.fa, FutureResponseAction(next.n, DeliverBulk))]

\* The queues after a WriteOne of `next` threw with `sent` of its queries
\* already sent: every catch ends in `continue` (lines 282, 287, 314, 319,
\* 340, 365), so nothing is recorded.
ThrownFallsThrough(next, sent, q) == Recorded(next, q)
Thrown(next, sent, q) == q

Queues == [fa |-> futureActions, single |-> replyPromises,
           bulk |-> repliesPromises]

SetQueues(q) ==
    /\ futureActions' = q.fa
    /\ replyPromises' = q.single
    /\ repliesPromises' = q.bulk

\* m_QueuedWrites.Wait(yc) returns (line 265).
WWait ==
    /\ ~unwound
    /\ wpc = "wait"
    /\ queuedWrites
    /\ wpc' = "drain"
    /\ UNCHANGED <<startVars, subVars, queueVars, promVars, wire, wnext, wi,
                   readerVars, histVars>>

\* Lines 267-269: pop the front of Writes, up to the first WriteOne.  An
\* empty bulk has no WriteOne: its whole branch runs here.
WPop ==
    /\ ~unwound
    /\ wpc = "drain"
    /\ writes # <<>>
    /\ writes' = Tail(writes)
    /\ IF Head(writes).n > 0
          THEN /\ wpc' = "send"
               /\ wnext' = Head(writes)
               /\ wi' = 0
               /\ UNCHANGED <<futureActions, replyPromises, repliesPromises,
                              queuedReads>>
          ELSE /\ SetQueues(Recorded(Head(writes), Queues))
               /\ queuedReads' = TRUE
               /\ UNCHANGED <<wpc, wnext, wi>>
    /\ UNCHANGED <<startVars, subVars, queuedWrites, promVars, wire,
                   readerVars, histVars>>

\* A WriteOne returned (lines 275, 305, 335, 359); after the last one of
\* the item the bookkeeping and m_QueuedReads.Set().
WSendOk ==
    /\ ~unwound
    /\ wpc = "send"
    /\ "ok" \in WriteOneOutcomes
    /\ wire' = Append(wire, Query(wnext.id, wi + 1))
    /\ sentLog' = Append(sentLog, Query(wnext.id, wi + 1))
    /\ IF wi + 1 < wnext.n
          THEN /\ wi' = wi + 1
               /\ UNCHANGED <<wpc, wnext, futureActions, replyPromises,
                              repliesPromises, queuedReads>>
          ELSE /\ SetQueues(Recorded(wnext, Queues))
               /\ queuedReads' = TRUE
               /\ wpc' = "drain"
               /\ wnext' = NoItem
               /\ wi' = 0
    /\ UNCHANGED <<startVars, subVars, writes, queuedWrites, promVars,
                   readerVars, sendFailed, readFailed, nreads>>

\* A WriteOne threw: the catch blocks of lines 278-288, 310-320, 338-341,
\* 363-366.  An awaiting item's promise gets the exception.
WSendThrow ==
    /\ ~unwound
    /\ wpc = "send"
    /\ "throw" \in WriteOneOutcomes
    /\ sendFailed' = TRUE
    /\ IF IsAwait(wnext.kind)
          THEN /\ result' = [result EXCEPT ![wnext.id] = Error]
               /\ completed' = Append(completed, wnext.id)
          ELSE UNCHANGED <<result, completed>>
    /\ SetQueues(Thrown(wnext, wi, Queues))
    /\ wpc' = "drain"
    /\ wnext' = NoItem
    /\ wi' = 0
    /\ UNCHANGED <<startVars, subVars, writes, queuedWrites, queuedReads,
                   doubleSet, wire, readerVars, readFailed, sentLog, nreads>>

\* Writes is empty: m_QueuedWrites.Clear() (line 375), back to Wait.
WClear ==
    /\ ~unwound
    /\ wpc = "drain"
    /\ writes = <<>>
    /\ queuedWrites' = FALSE
    /\ wpc' = "wait"
    /\ UNCHANGED <<startVars, subVars, writes, queuedReads, futureActions,
                   replyPromises, repliesPromises, promVars, wire, wnext, wi,
                   readerVars, histVars>>

\* ------------------------------------------------------------- ReadLoop
\* replies.emplace_back(ReadOne(yc)), line 244.
EmplaceFront(replies, reply) == <<reply>> \o replies
EmplaceBack(replies, reply) == Append(replies, reply)

\* A promise can be satisfied once: set_value / set_exception on a promise
\* that already holds a value or an exception throws std::future_error.
Satisfied(p) == result[p].st \in {"value", "error"}

Satisfy(p, v) ==
    /\ result' = [result EXCEPT ![p] = v]
    /\ completed' = Append(completed, p)

ReaderTo(pcv, item, i, promise, replies) ==
    /\ rpc' = pcv
    /\ ritem' = item
    /\ ri' = i
    /\ rpromise' = promise
    /\ rreplies' = replies

\* The entry is done (break, or continue of the while): back to line 193.
ReaderNextEntry == ReaderTo("drain", NoAction, 0, 0, <<>>)

\* std::future_error leaves the catch handler (line 248) or the block of
\* line 253; no handler of ReadLoop takes it, the coroutine ends.
ReaderDies ==
    /\ ReaderTo("dead", NoAction, 0, 0, <<>>)
    /\ doubleSet' = TRUE

\* m_QueuedReads.Wait(yc) returns (line 191).
RWait ==
    /\ ~unwound
    /\ rpc = "wait"
    /\ queuedReads
    /\ rpc' = "drain"
    /\ UNCHANGED <<startVars, subVars, queueVars, promVars, wire, writerVars,
                   ritem, ri, rpromise, rreplies, histVars>>

\* Lines 193-197: pop the front entry, then run its case up to the first
\* ReadOne (lines 200, 216-218, 236-242).  DeliverBulk with Amount 0 has no
\* ReadOne and runs to line 253.
RPop ==
    /\ ~unwound
    /\ rpc = "drain"
    /\ futureActions # <<>>
    /\ futureActions' = Tail(futureActions)
    /\ LET item == Head(futureActions) IN
       CASE item.Action = Ignore ->
              /\ IF item.Amount > 0
                    THEN ReaderTo("read", item, item.Amount, 0, <<>>)
                    ELSE ReaderNextEntry
              /\ UNCHANGED <<replyPromises, repliesPromises, promVars>>
         [] item.Action = Deliver ->
              /\ IF item.Amount > 0
                    THEN /\ ReaderTo("read", item, item.Amount,
                                     Head(replyPromises), <<>>)
                         /\ replyPromises' = Tail(replyPromises)
                    ELSE /\ ReaderNextEntry
                         /\ UNCHANGED replyPromises
              /\ UNCHANGED <<repliesPromises, promVars>>
         [] item.Action = DeliverBulk ->
              /\ repliesPromises' = Tail(repliesPromises)
              /\ UNCHANGED replyPromises
              /\ IF item.Amount > 0
                    THEN /\ ReaderTo("read", item, item.Amount,
                                     Head(repliesPromises), <<>>)
                         /\ UNCHANGED promVars
                    ELSE IF Satisfied(Head(repliesPromises))
                            THEN ReaderDies /\ UNCHANGED <<result, completed>>
                            ELSE /\ Satisfy(Head(repliesPromises), Value(<<>>))
                                 /\ ReaderNextEntry
                                 /\ UNCHANGED doubleSet
    /\ nreads' = IF rpc' = "read" THEN nreads + 1 ELSE nreads
    /\ UNCHANGED <<startVars, subVars, writes, queuedWrites, queuedReads,
                   wire, writerVars, sendFailed, readFailed, sentLog>>

\* A ReadOne returned a reply (lines 201, 223, 244), up to the next ReadOne
\* or the end of the entry.
RReadOk ==
    /\ ~unwound
    /\ rpc = "read"
    /\ "ok" \in ReadOneOutcomes
    /\ wire' = Tail(wire)
    /\ LET reply == ReplyTo(Head(wire)) IN
       CASE ritem.Action = Ignore ->
              /\ IF ri > 1
                    THEN ReaderTo("read", ritem, ri - 1, 0, <<>>)
                    ELSE ReaderNextEntry
              /\ UNCHANGED <<replyPromises, promVars>>
         [] ritem.Action = Deliver ->
              IF Satisfied(rpromise)
                 THEN ReaderDies /\ UNCHANGED <<replyPromises, result, completed>>
                 ELSE /\ Satisfy(rpromise, Value(<<reply>>))
                      /\ UNCHANGED doubleSet
                      /\ IF ri > 1
                            THEN /\ ReaderTo("read", ritem, ri - 1,
                                             Head(replyPromises), <<>>)
                                 /\ replyPromises' = Tail(replyPromises)
                            ELSE /\ ReaderNextEntry
                                 /\ UNCHANGED replyPromises
         [] ritem.Action = DeliverBulk ->
              /\ UNCHANGED replyPromises
              /\ IF ri > 1
                    THEN /\ ReaderTo("read", ritem, ri - 1, rpromise,
                                     EmplaceBack(rreplies, reply))
                         /\ UNCHANGED promVars
                    ELSE IF Satisfied(rpromise)
                            THEN ReaderDies /\ UNCHANGED <<result, completed>>
                            ELSE /\ Satisfy(rpromise,
                                            Value(EmplaceBack(rreplies, reply)))
                                 /\ ReaderNextEntry
                                 /\ UNCHANGED doubleSet
    /\ UNCHANGED <<startVars, subVars, writes, queuedWrites, queuedReads,
                   futureActions, repliesPromises, writerVars, sendFailed,
                   readFailed, sentLog>>
    /\ nreads' = IF rpc' = "read" THEN nreads + 1 ELSE nreads

\* A ReadOne threw: the catch blocks of lines 205-213, 226-229, 247-250.
RReadThrow ==
    /\ ~unwound
    /\ rpc = "read"
    /\ "throw" \in ReadOneOutcomes
    /\ wire' = Tail(wire)
    /\ readFailed' = TRUE
    /\ CASE ritem.Action = Ignore ->
              \* the try encloses the for: `continue` goes on with the while
              /\ ReaderNextEntry
              /\ UNCHANGED <<replyPromises, promVars>>
         [] ritem.Action = Deliver ->
              IF Satisfied(rpromise)
                 THEN ReaderDies /\ UNCHANGED <<replyPromises, result, completed>>
                 ELSE /\ Satisfy(rpromise, Error)
                      /\ UNCHANGED doubleSet
                      /\ IF ri > 1
                            THEN /\ ReaderTo("read", ritem, ri - 1,
                                             Head(replyPromises), <<>>)
                                 /\ replyPromises' = Tail(replyPromises)
                            ELSE /\ ReaderNextEntry
                                 /\ UNCHANGED replyPromises
         [] ritem.Action = DeliverBulk ->
              \* set_exception, `continue` of the for, and after the last
              \* iteration set_value on the same promise (line 253)
              /\ UNCHANGED replyPromises
              /\ IF Satisfied(rpromise)
                    THEN ReaderDies /\ UNCHANGED <<result, completed>>
                    ELSE /\ Satisfy(rpromise, Error)
                         /\ IF ri > 1
                               THEN /\ ReaderTo("read", ritem, ri - 1, rpromise,
                                                rreplies)
                                    /\ UNCHANGED doubleSet
                               ELSE ReaderDies
    /\ UNCHANGED <<startVars, subVars, writes, queuedWrites, queuedReads,
                   futureActions, repliesPromises, writerVars, sendFailed,
                   sentLog>>
    /\ nreads' = IF rpc' = "read" THEN nreads + 1 ELSE nreads

\* FutureResponseActions is empty: m_QueuedReads.Clear() (line 258).
RClear ==
    /\ ~unwound
    /\ rpc = "drain"
    /\ futureActions = <<>>
    /\ queuedReads' = FALSE
    /\ rpc' = "wait"
    /\ UNCHANGED <<startVars, subVars, writes, queuedWrites, futureActions,
                   replyPromises, repliesPromises, promVars, wire, writerVars,
                   ritem, ri, rpromise, rreplies, histVars>>

\* ------------------------------------------------------- specifications
Next ==
    \/ \E t \in StartThreads : StartLoops(t)
    \/ \E t \in StartThreads : StartConnect(t)
    \/ ConnectOk
    \/ ConnectFail
    \/ ConnectUnwind
    \/ SubmitFireAndForgetQuery
    \/ SubmitFireAndForgetQueries
    \/ SubmitGetResultOfQuery
    \/ SubmitGetResultsOfQueries
    \/ RunPosted
    \/ WWait
    \/ WPop
    \/ WSendOk
    \/ WSendThrow
    \/ WClear
    \/ RWait
    \/ RPop
    \/ RReadOk
    \/ RReadThrow
    \/ RClear

Spec == Init /\ [][Next]_vars

\* The executor runs every ready handler and resumes every ready coroutine,
\* and every send and read finishes (returns or throws).
FairSpec ==
    /\ Spec
    /\ WF_vars(RunPosted)
    /\ WF_vars(WWait) /\ WF_vars(WPop) /\ WF_vars(WClear)
    /\ WF_vars(WSendOk \/ WSendThrow)
    /\ WF_vars(RWait) /\ WF_vars(RPop) /\ WF_vars(RClear)
    /\ WF_vars(RReadOk \/ RReadThrow)

\* ---------------------------------------------------------------- claims
Ids == 1..nsub

NoFailure == ~sendFailed /\ ~readFailed

IsIncreasing(seq) == \A a, b \in 1..Len(seq) : a < b => seq[a] < seq[b]

Range(seq) == {seq[j] : j \in 1..Len(seq)}

\* C1: as long as no send and no read has failed, every satisfied promise
\* holds exactly the replies to its own queries in input order (one reply for
\* GetResultOfQuery, N for GetResultsOfQueries), and promises are satisfied
\* in submission order.
C1_OwnRepliesInOrder ==
    NoFailure =>
        /\ \A k \in Ids :
              result[k].st # "pending" =>
                  /\ IsAwait(subs[k].kind) => result[k] = Value(OwnReplies(subs[k]))
                  /\ ~IsAwait(subs[k].kind) => result[k] = NoPromise
        /\ IsIncreasing(completed)

\* C1 witness: a fire-and-forget, a bulk await of two queries and a single
\* await, all answered without any failure.
C1_Witness ==
    /\ NoFailure
    /\ Len(completed) = 2
    /\ \E k \in Ids : ~IsAwait(subs[k].kind) /\ subs[k].n > 0
    /\ \E k \in Ids : /\ subs[k].kind = GetResultsOfQueries /\ subs[k].n = 2
                      /\ result[k].st = "value"
    /\ \E k \in Ids : subs[k].kind = GetResultOfQuery /\ result[k].st = "value"

\* C2: whatever sends and reads failed, a value delivered to a promise
\* consists of replies to queries of that same submission.
C2_OnlyOwnReplies ==
    \A k \in Ids :
        result[k].st = "value" => Range(result[k].val) \subseteq Range(OwnReplies(subs[k]))

\* C3: once the loops are spawned, every pending promise is eventually
\* satisfied with a value or an exception, as long as the coroutines are not
\* destroyed.
C3_NoAwaitLost ==
    \A k \in 1..MaxSubmit :
        (started /\ result[k].st = "pending")
            ~> (result[k].st # "pending" \/ unwound)

\* C4: the writer dequeues an item from Writes, and is inside a send, only
\* while connected is true.
C4_BufferedUntilConnected ==
    [][(Len(writes') < Len(writes) \/ wpc' = "send") => connected']_vars

\* C5: once Start has been called, whatever the number of calls and their
\* interleaving, exactly one ReadLoop and one WriteLoop have been spawned;
\* before, none.
C5_LoopsSpawnedOnce ==
    /\ startCalls = 0 => readLoops = 0 /\ writeLoops = 0
    /\ startCalls > 0 => readLoops = 1 /\ writeLoops = 1

\* C5 witness: two threads are inside Start at the same time.
C5_Witness ==
    /\ startPc["t1"] = "loops" /\ startPc["t2"] = "loops"
    /\ readLoops = 1 /\ writeLoops = 1

\* C6 as claimed: at most one Connect attempt is ever started, whatever the
\* outcome of the first.
C6_ConnectStartedOnce == connectsStarted <= 1

\* C6 amended: a Connect attempt beyond the first is started only after
\* every earlier attempt has failed; while an attempt is in flight or after
\* one has succeeded no Start call starts another.
C6_ConnectAgainOnlyAfterFailure ==
    /\ connectsStarted <= connectsFailed + 1
    /\ connInFlight <= 1
    /\ connected => connInFlight = 0

\* C6 witness: a first attempt failed, a later Start call started a second
\* one, and it succeeded.
C6_Witness ==
    /\ connectsStarted = 2 /\ connectsFailed = 1 /\ connected
    /\ \A t \in StartThreads : startPc[t] = "idle"

\* C7: the writer step in which the send of a GetResultOfQuery item throws
\* sets the exception on the item's promise and leaves futureActions and
\* replyPromises as they were.
C7_FailedAwaitSingleRecordsNothing ==
    [][(wpc = "send" /\ wnext.kind = GetResultOfQuery /\ wpc' = "drain"
        /\ wire' = wire)
       => /\ result'[wnext.id] = Error
          /\ futureActions' = futureActions
          /\ replyPromises' = replyPromises]_vars

\* C7 witness: the send of a GetResultOfQuery item threw while earlier
\* bookkeeping was still queued.
C7_Witness ==
    /\ ~readFailed /\ connected
    /\ futureActions # <<>>
    /\ \E k \in Ids : subs[k].kind = GetResultOfQuery /\ result[k] = Error

\* C8: no loop ever calls set_value or set_exception on a promise that
\* already holds a value or an exception.
C8_PromiseSetOnce == ~doubleSet

\* C9: a loop that has been spawned keeps running: no send or read failure
\* makes it exit.
C9_LoopsKeepRunning ==
    /\ readLoops > 0 => rpc \in {"wait", "drain", "read"}
    /\ writeLoops > 0 => wpc \in {"wait", "drain", "send"}

RECURSIVE IgnoreUnits(_)
IgnoreUnits(fa) ==
    IF fa = <<>> THEN 0
    ELSE (IF Head(fa).Action = Ignore THEN Head(fa).Amount ELSE 0)
         + IgnoreUnits(Tail(fa))

\* C10: the writer step that ends a FireAndForgetQueries item adds to the
\* Ignore bookkeeping exactly the number of its queries that were sent: N
\* when all sends returned, K when the send of query K+1 threw.
C10_FireBulkRecordsSentPrefix ==
    [][(wpc = "send" /\ wnext.kind = FireAndForgetQueries /\ wpc' = "drain")
       => IgnoreUnits(futureActions') = IgnoreUnits(futureActions)
             + (IF wire' = wire THEN wi ELSE wi + 1)]_vars

RECURSIVE Units(_, _)
\* The sum of the amounts of the entries of fa whose action is in `actions`.
Units(fa, actions) ==
    IF fa = <<>> THEN 0
    ELSE (IF Head(fa).Action \in actions THEN Head(fa).Amount ELSE 0)
         + Units(Tail(fa), actions)

ReaderBetweenEntries == rpc \in {"none", "wait", "drain"}

\* C11: whenever the reader is not inside an entry it has popped (and the
\* writer is not inside an item), the number of replies pending on the wire
\* equals the sum of the amounts of all entries of futureActions.
C11_PendingRepliesMatchBookkeeping ==
    (ReaderBetweenEntries /\ wpc # "send")
        => Len(wire) = Units(futureActions, {Ignore, Deliver, DeliverBulk})

\* C12 as claimed: in every reachable state the length of replyPromises
\* equals the sum of the amounts of the Deliver entries of futureActions.
C12_SinglePromisesMatchAlways ==
    Len(replyPromises) = Units(futureActions, {Deliver})

\* C12 amended: in every reachable state the length of replyPromises equals
\* the sum of the amounts of the Deliver entries of futureActions plus the
\* units the reader still has to serve of a Deliver entry it has popped
\* (its loop counter minus one, for the promise it holds); so the two are
\* equal whenever the reader is not inside a Deliver entry.
C12_SinglePromisesMatchUpToReader ==
    Len(replyPromises) =
        Units(futureActions, {Deliver})
        + (IF rpc = "read" /\ ritem.Action = Deliver THEN ri - 1 ELSE 0)

\* C12 witness: the reader is inside a Deliver entry of two units, one
\* promise taken, one still queued, and no Deliver entry is queued.
C12_Witness ==
    /\ rpc = "read" /\ ritem.Action = Deliver /\ ri = 2
    /\ Len(replyPromises) = 1
    /\ Units(futureActions, {Deliver}) = 0

BulkEntries(fa) == {p \in 1..Len(fa) : fa[p].Action = DeliverBulk}

\* C13: whenever the reader waits on queuedReads or is between two entries,
\* the length of replyPromises equals the sum of the amounts of the Deliver
\* entries and the length of repliesPromises equals the number of
\* DeliverBulk entries of futureActions.
C13_PromisesMatchBetweenEntries ==
    ReaderBetweenEntries =>
        /\ Len(replyPromises) = Units(futureActions, {Deliver})
        /\ Len(repliesPromises) = Cardinality(BulkEntries(futureActions))

\* C13 witness: between two entries, with promises of both kinds queued.
C13_Witness ==
    /\ rpc = "drain"
    /\ Len(replyPromises) >= 1
    /\ Len(repliesPromises) >= 2

NoAdjacentCoalescable(fa) ==
    \A p \in 1..(Len(fa) - 1) :
        ~(fa[p].Action = fa[p + 1].Action /\ fa[p].Action \in {Ignore, Deliver})

\* C14: futureActions never holds two adjacent Ignore entries or two
\* adjacent Deliver entries, and the writer step that ends a successfully
\* sent GetResultsOfQueries item appends one new DeliverBulk entry of its
\* own.
C14_CoalescedExceptBulk ==
    /\ []NoAdjacentCoalescable(futureActions)
    /\ [][/\ (wpc = "send" /\ wnext.kind = GetResultsOfQueries
              /\ wpc' = "drain" /\ wire' # wire)
             => futureActions' =
                  Append(futureActions, FutureResponseAction(wnext.n, DeliverBulk))
          /\ (wpc = "drain" /\ writes # <<>> /\ Len(writes') < Len(writes)
              /\ Head(writes).kind = GetResultsOfQueries /\ Head(writes).n = 0)
             => futureActions' =
                  Append(futureActions, FutureResponseAction(0, DeliverBulk))]_vars

\* C14 witness: two fire-and-forget items coalesced into one Ignore entry,
\* followed by the DeliverBulk entry of a bulk await.
C14_Witness ==
    /\ Len(futureActions) = 2
    /\ futureActions[1] = FutureResponseAction(2, Ignore)
    /\ futureActions[2].Action = DeliverBulk
    /\ \A k \in 1..2 : k \in Ids /\ subs[k].kind = FireAndForgetQuery

\* C15: every entry of futureActions has an amount of at least 1.
C15_AmountsPositive ==
    \A p \in 1..Len(futureActions) : futureActions[p].Amount >= 1

\* C16: when a read of an Ignore entry with further reads to make throws,
\* the reader goes on with the next read of the same entry.
C16_IgnoreReadsAllN ==
    [][(rpc = "read" /\ ritem.Action = Ignore /\ ri > 1
        /\ Len(wire') < Len(wire))
       => (rpc' = "read" /\ ritem' = ritem /\ ri' = ri - 1)]_vars

\* C17: when the writer is suspended in Wait with queuedWrites unsignaled,
\* writes is empty, and when the reader is suspended in Wait with
\* queuedReads unsignaled, futureActions is empty.
C17_NoLostWakeup ==
    /\ (wpc = "wait" /\ ~queuedWrites) => writes = <<>>
    /\ (rpc = "wait" /\ ~queuedReads) => futureActions = <<>>

\* C17 witness: three submissions, one enqueued while the writer was in a
\* send, were all sent and answered and both loops are back in Wait with
\* their flags cleared.
C17_Witness ==
    /\ wpc = "wait" /\ ~queuedWrites
    /\ rpc = "wait" /\ ~queuedReads
    /\ nsub = MaxSubmit /\ posted = <<>> /\ wire = <<>>
    /\ ~sendFailed
    /\ Len(completed) >= 1

\* ------------------------------------------------------------------ C18
\* C18: write items do not interleave on the wire.  The queries reach the
\* wire in the order their items were posted to the executor (the ids count
\* the posts), and the sub-queries of one item are written next to each
\* other, in their order, also when other items are enqueued while the
\* writer is suspended in a send.
C18_ItemsDoNotInterleave ==
    \A p \in 1..Len(sentLog) :
        IF sentLog[p][2] = 1
           THEN p = 1 \/ sentLog[p - 1][1] < sentLog[p][1]
           ELSE p > 1 /\ sentLog[p - 1] = Query(sentLog[p][1], sentLog[p][2] - 1)

\* An item was enqueued while the writer is suspended between the two sends
\* of a bulk item that itself follows an earlier item.
C18_Witness ==
    /\ wpc = "send" /\ wnext.n = 2 /\ wi = 1
    /\ sentLog = <<Query(1, 1), Query(wnext.id, 1)>>
    /\ wnext.id = 2
    /\ writes # <<>>

\* ------------------------------------------------------------------ C19
\* C19: the reader never over-reads.  The read attempts the reader has
\* started are at most the queries the writer has sent successfully.
C19_NoOverRead == nreads <= Len(sentLog)

\* A send failed, and the reader has started as many reads as queries were
\* sent.
C19_Witness ==
    /\ sendFailed
    /\ nreads >= 2
    /\ nreads = Len(sentLog)

\* ------------------------------------------------------------------ C20
\* C20: connecting is true while a Connect is in flight, at most one
\* Connect is in flight at any time, and every exit of Connect (success,
\* failure, forced unwind) leaves connecting equal to connected.
C20_ConnectingTracksConnect ==
    /\ [](connInFlight > 0 => connecting)
    /\ [](connInFlight <= 1)
    /\ [][connInFlight' < connInFlight => connecting' = connected']_vars

\* The second Connect, started after the first one failed, was unwound.
C20_Witness ==
    /\ unwound
    /\ connectsStarted = 2 /\ connectsFailed = 1
    /\ connInFlight = 0
    /\ connecting = connected

====
